---- MODULE Spec2Model ----
(***************************************************************************)
(* Model of the ESTree sequence serializer of oxc_estree                   *)
(* (crates/oxc_estree/src/serialize/sequences.rs) and of the lint rule     *)
(* no_unsafe_finally of oxc_linter                                         *)
(* (crates/oxc_linter/src/rules/eslint/no_unsafe_finally.rs).              *)
(*                                                                         *)
(* One behaviour is the unit test `serialize_sequence`: a value is         *)
(* serialized with a CompactSerializer, the text is taken with             *)
(* into_string, and the same value is serialized again with a              *)
(* PrettySerializer.  The recursion value.serialize -> serialize_element   *)
(* -> value.serialize is modelled by an explicit call stack: one frame per *)
(* running `serialize` of a slice / array / struct, holding the builder it *)
(* created and the position of its `for` loop.                             *)
(*                                                                         *)
(* The buffer is a sequence of tokens: "[", "]", "{", "}", ",", ":",       *)
(* "\n", " " and the rendered literals of primitives and field names.      *)
(***************************************************************************)
EXTENDS Integers, Sequences, FiniteSets, TLC

VARIABLES
    tree,       \* the value handed to the top-level serialize call
    formatter,  \* the F of ESTreeSerializer<F>: "Compact" or "Pretty"
    buffer,     \* ESTreeSerializer.buffer
    indent,     \* PrettyFormatter's nesting depth
    stack,      \* call stack of running `serialize` calls of containers
    seqs,       \* every builder created by the current serializer, by id
    hooks,      \* log of the formatter hooks invoked, with the invoking builder
    output,     \* the strings returned by into_string, per formatter
    pc,         \* position of the test driver: "start", "running", "done"
    node,       \* the AST node handed to NoUnsafeFinally::run
    ancestors,  \* the node's ancestors, nearest first, Program last
    self_first, \* whether ancestor_ids yields the node itself before its parent
    diagnostics,\* the nodes reported through ctx.diagnostic
    visited     \* whether run has been called on the node

serVars == <<tree, formatter, buffer, indent, stack, seqs, hooks, output, pc>>

lintVars == <<node, ancestors, self_first, diagnostics, visited>>

vars == <<serVars, lintVars>>

\* The linter is not running: no node has been handed to a rule.
LintIdle ==
    /\ node = [kind |-> "Program", label |-> ""]
    /\ ancestors = <<>>
    /\ self_first = FALSE
    /\ diagnostics = <<>>
    /\ visited = FALSE

----------------------------------------------------------------------------
(* Bounds and input values *)

MaxNodes == 3

IndentUnit == 2

Formatters == {"Compact", "Pretty"}

Prims == {"\"a\"", "\"b\""}

FieldNames == {"\"x\"", "\"y\""}

Prim(lit) == [kind |-> "prim", name |-> lit, kids |-> <<>>]

SeqV(elements) == [kind |-> "seq", name |-> "", kids |-> elements]

ArrV(elements) == [kind |-> "array", name |-> "", kids |-> elements]

Field(key, value) == [kind |-> "field", name |-> key, kids |-> <<value>>]

StructV(fields) == [kind |-> "struct", name |-> "", kids |-> fields]

RECURSIVE ValuesOfSize(_), ForestsOfSize(_, _)
ValuesOfSize(n) ==
    (IF n = 1 THEN {Prim(p) : p \in Prims} ELSE {})
    \cup {SeqV(f) : f \in ForestsOfSize(n - 1, FALSE)}
    \cup {ArrV(f) : f \in ForestsOfSize(n - 1, FALSE)}
    \cup {StructV(f) : f \in ForestsOfSize(n - 1, TRUE)}

ForestsOfSize(n, asFields) ==
    IF n = 0 THEN {<<>>}
    ELSE UNION {
        IF asFields
        THEN {<<Field(k, v)>> \o f :
                 k \in FieldNames, v \in ValuesOfSize(m),
                 f \in ForestsOfSize(n - m, TRUE)}
        ELSE {<<v>> \o f :
                 v \in ValuesOfSize(m), f \in ForestsOfSize(n - m, FALSE)}
        : m \in 1..n}

\* The value of the unit test.
Foo ==
    StructV(<<Field("\"none\"", SeqV(<<>>)),
              Field("\"one\"", SeqV(<<Prim("\"one\"")>>)),
              Field("\"two\"", ArrV(<<Prim("\"two one\""), Prim("\"two two\"")>>))>>)

\* A sequence of sequences of sequences followed by a sibling.
Deep ==
    SeqV(<<SeqV(<<SeqV(<<Prim("\"a\"")>>), SeqV(<<>>)>>), Prim("\"b\"")>>)

Trees == (UNION {ValuesOfSize(n) : n \in 1..MaxNodes}) \cup {Foo, Deep}

----------------------------------------------------------------------------
(* Buffer and formatters *)

push_ascii_byte(buf, byte) == Append(buf, byte)

print_str(buf, str) == Append(buf, str)

RECURSIVE Spaces(_)
Spaces(n) == IF n <= 0 THEN <<>> ELSE <<" ">> \o Spaces(n - 1)

push_new_line_and_indent(buf, depth) ==
    buf \o <<"\n">> \o Spaces(depth * IndentUnit)

\* A serializer state `ser` is [buffer, indent, hooks].
Log(ser, hook, id) ==
    [ser EXCEPT !.hooks = Append(@, [hook |-> hook, seq |-> id])]

before_first_element(F, ser) ==
    IF F = "Pretty"
    THEN [ser EXCEPT !.indent = @ + 1,
                     !.buffer = push_new_line_and_indent(@, ser.indent + 1)]
    ELSE ser

\* Faulty variant of before_later_element: the pretty formatter writes a comma too.
before_later_element_writes_comma(F, ser) ==
    IF F = "Pretty"
    THEN [ser EXCEPT !.buffer =
              push_new_line_and_indent(push_ascii_byte(@, ","), ser.indent)]
    ELSE ser

before_later_element(F, ser) ==
    IF F = "Pretty"
    THEN [ser EXCEPT !.buffer = push_new_line_and_indent(@, ser.indent)]
    ELSE ser

before_field_value(F, ser) ==
    IF F = "Pretty"
    THEN [ser EXCEPT !.buffer = push_ascii_byte(@, " ")]
    ELSE ser

after_last_element(F, ser) ==
    IF F = "Pretty"
    THEN [ser EXCEPT !.indent = @ - 1,
                     !.buffer = push_new_line_and_indent(@, ser.indent - 1)]
    ELSE ser

----------------------------------------------------------------------------
(* ESTreeSequenceSerializer *)

\* Faulty variant of new: the builder starts in HasEntries.
new_has_entries(ser) ==
    [ser   |-> [ser EXCEPT !.buffer = push_ascii_byte(@, "[")],
     state |-> "HasEntries"]

new(ser) ==
    [ser   |-> [ser EXCEPT !.buffer = push_ascii_byte(@, "[")],
     state |-> "Empty"]

\* Faulty variant of serialize_element: the state is never set to HasEntries.
serialize_element_stays_empty(F, ser, state, id) ==
    IF state = "Empty"
    THEN [state |-> state,
          ser   |-> before_first_element(F, Log(ser, "before_first_element", id))]
    ELSE [state |-> state,
          ser   |-> before_later_element(F,
                        Log([ser EXCEPT !.buffer = push_ascii_byte(@, ",")],
                            "before_later_element", id))]

\* Faulty variant of serialize_element: the comma is written before the state test.
serialize_element_comma_first(F, ser, state, id) ==
    LET s0 == [ser EXCEPT !.buffer = push_ascii_byte(@, ",")]
    IN  IF state = "Empty"
        THEN [state |-> "HasEntries",
              ser   |-> before_first_element(F,
                            Log(s0, "before_first_element", id))]
        ELSE [state |-> state,
              ser   |-> before_later_element(F,
                            Log(s0, "before_later_element", id))]

\* Faulty variant of serialize_element: a later element resets the state.
serialize_element_reverts(F, ser, state, id) ==
    IF state = "Empty"
    THEN [state |-> "HasEntries",
          ser   |-> before_first_element(F, Log(ser, "before_first_element", id))]
    ELSE [state |-> "Empty",
          ser   |-> before_later_element(F,
                        Log([ser EXCEPT !.buffer = push_ascii_byte(@, ",")],
                            "before_later_element", id))]

\* Faulty variant of serialize_element: the comma is written after the hook.
serialize_element_hook_then_comma(F, ser, state, id) ==
    IF state = "Empty"
    THEN [state |-> "HasEntries",
          ser   |-> before_first_element(F, Log(ser, "before_first_element", id))]
    ELSE [state |-> state,
          ser   |-> [before_later_element(F, Log(ser, "before_later_element", id))
                        EXCEPT !.buffer = push_ascii_byte(@, ",")]]

\* The part of serialize_element before the call of value.serialize.
serialize_element(F, ser, state, id) ==
    IF state = "Empty"
    THEN [state |-> "HasEntries",
          ser   |-> before_first_element(F, Log(ser, "before_first_element", id))]
    ELSE [state |-> state,
          ser   |-> before_later_element(F,
                        Log([ser EXCEPT !.buffer = push_ascii_byte(@, ",")],
                            "before_later_element", id))]

\* Faulty variant of end: after_last_element is invoked whatever the state.
end_always_after_last(F, ser, state, id) ==
    [after_last_element(F, Log(ser, "after_last_element", id))
        EXCEPT !.buffer = push_ascii_byte(@, "]")]

\* Faulty variant of end: after_last_element is never invoked.
end_skips_after_last(F, ser, state, id) ==
    [ser EXCEPT !.buffer = push_ascii_byte(@, "]")]

\* Faulty variant of end: the closing bracket replaces the last byte written.
end_rewrites_last(F, ser, state, id) ==
    LET s1 == IF state = "HasEntries"
              THEN after_last_element(F, Log(ser, "after_last_element", id))
              ELSE ser
    IN  [s1 EXCEPT !.buffer =
            push_ascii_byte(SubSeq(@, 1, Len(@) - 1), "]")]

\* Faulty variant of end: the closing bracket is written inside the state test.
end_unclosed_when_empty(F, ser, state, id) ==
    IF state = "HasEntries"
    THEN [after_last_element(F, Log(ser, "after_last_element", id))
            EXCEPT !.buffer = push_ascii_byte(@, "]")]
    ELSE ser

end(F, ser, state, id) ==
    LET s1 == IF state = "HasEntries"
              THEN after_last_element(F, Log(ser, "after_last_element", id))
              ELSE ser
    IN  [s1 EXCEPT !.buffer = push_ascii_byte(@, "]")]

----------------------------------------------------------------------------
(* Struct builder *)

new_struct(ser) ==
    [ser   |-> [ser EXCEPT !.buffer = push_ascii_byte(@, "{")],
     state |-> "Empty"]

\* The part of serialize_field before the call of value.serialize.
serialize_field(F, ser, state, id, key) ==
    LET r  == serialize_element(F, ser, state, id)
        s1 == [r.ser EXCEPT !.buffer = push_ascii_byte(print_str(@, key), ":")]
    IN  [state |-> r.state, ser |-> before_field_value(F, s1)]

end_struct(F, ser, state, id) ==
    LET s1 == IF state = "HasEntries"
              THEN after_last_element(F, Log(ser, "after_last_element", id))
              ELSE ser
    IN  [s1 EXCEPT !.buffer = push_ascii_byte(@, "}")]

----------------------------------------------------------------------------
(* The serializable-value protocol *)

\* Faulty variant of Call: the callee is queued and runs after its caller.
Call_deferred(stk, frame) == <<frame>> \o stk

\* Faulty variant of Call: the callee's loop never runs.
Call_dropped(stk, frame) == stk

\* A synchronous call: the callee runs on top of its caller.
Call(stk, frame) == Append(stk, frame)

\* Faulty variant of Return: the builder is not consumed and stays in use.
Return_keeps_builder(stk) == stk

\* end(self) consumes the builder and `serialize` returns.
Return(stk) == SubSeq(stk, 1, Len(stk) - 1)

\* The element the `for` loop of a running `serialize` hands out next.
\* Faulty variant of array_iter: the array is walked from its last element.
array_iter_reversed(elements) ==
    [k \in 1..Len(elements) |-> elements[Len(elements) + 1 - k]]

\* `for element in *self` of the slice implementation
slice_iter(elements) == elements

\* `for element in self` of the array implementation
array_iter(elements) == elements

\* The fields of a struct, in the order its serialize names them.
fields(value) == value.kids

IsSequence(value) == value.kind \in {"seq", "array"}

NextElement(frame) ==
    LET items == CASE frame.value.kind = "seq" -> slice_iter(frame.value.kids)
                   [] frame.value.kind = "array" -> array_iter(frame.value.kids)
                   [] frame.value.kind = "struct" -> fields(frame.value)
    IN  items[frame.i]

\* value.serialize(serializer), on the machine m = [ser, stack, seqs]:
\* a primitive writes its literal; a slice, array or struct begins its
\* builder, whose loop then runs in the new frame.
serialize(m, value, caller) ==
    IF value.kind = "prim"
    THEN [m EXCEPT !.ser.buffer = print_str(@, value.name)]
    ELSE LET b  == IF IsSequence(value) THEN new(m.ser) ELSE new_struct(m.ser)
             id == Len(m.seqs) + 1
         IN  [ser   |-> b.ser,
              seqs  |-> Append(m.seqs,
                          [kind     |-> IF IsSequence(value) THEN "seq" ELSE "struct",
                           of       |-> value,
                           state    |-> b.state,
                           open     |-> Len(b.ser.buffer),
                           close    |-> 0,
                           parent   |-> caller,
                           elems    |-> <<>>,
                           ends     |-> 0,
                           finished |-> FALSE]),
              stack |-> Call(m.stack, [value |-> value, i |-> 1, seq |-> id])]

Machine == [ser   |-> [buffer |-> buffer, indent |-> indent, hooks |-> hooks],
            stack |-> stack,
            seqs  |-> seqs]

SetMachine(m) ==
    /\ buffer' = m.ser.buffer
    /\ indent' = m.ser.indent
    /\ hooks' = m.ser.hooks
    /\ stack' = m.stack
    /\ seqs' = m.seqs

Top == stack[Len(stack)]

IsContainer(value) == value.kind \in {"seq", "array", "struct"}

\* The first token of the text of a value.
FirstToken(value) ==
    IF value.kind = "prim" THEN value.name
    ELSE IF IsSequence(value) THEN "[" ELSE "{"

----------------------------------------------------------------------------
(* Actions *)

Init ==
    /\ tree \in Trees
    /\ formatter = "Compact"
    /\ buffer = <<>>
    /\ indent = 0
    /\ stack = <<>>
    /\ seqs = <<>>
    /\ hooks = <<>>
    /\ output = [f \in Formatters |-> <<>>]
    /\ pc = "start"
    /\ LintIdle

\* foo.serialize(&mut serializer)
Serialize ==
    /\ pc = "start"
    /\ SetMachine(serialize(Machine, tree, 0))
    /\ pc' = "running"
    /\ UNCHANGED <<tree, formatter, output, lintVars>>

\* seq.serialize_element(element), in the loop of a slice or array
SerializeElement ==
    /\ pc = "running"
    /\ stack # <<>>
    /\ IsSequence(Top.value)
    /\ Top.i <= Len(Top.value.kids)
    /\ LET id    == Top.seq
           value == NextElement(Top)
           r     == serialize_element(formatter, Machine.ser, seqs[id].state, id)
           e     == [start |-> Len(r.ser.buffer) + 1,
                     text  |-> FirstToken(value),
                     child |-> IF IsContainer(value) THEN Len(seqs) + 1 ELSE 0]
           m     == [ser   |-> r.ser,
                     stack |-> [stack EXCEPT ![Len(stack)].i = @ + 1],
                     seqs  |-> [seqs EXCEPT ![id].state = r.state,
                                            ![id].elems = Append(@, e)]]
       IN  SetMachine(serialize(m, value, id))
    /\ UNCHANGED <<tree, formatter, output, pc, lintVars>>

\* seq.end(), after the loop of a slice or array
End ==
    /\ pc = "running"
    /\ stack # <<>>
    /\ IsSequence(Top.value)
    /\ Top.i > Len(Top.value.kids)
    /\ LET id == Top.seq
           s  == end(formatter, Machine.ser, seqs[id].state, id)
       IN  SetMachine([ser   |-> s,
                       stack |-> Return(stack),
                       seqs  |-> [seqs EXCEPT ![id].close = Len(s.buffer),
                                              ![id].ends = @ + 1,
                                              ![id].finished = TRUE]])
    /\ UNCHANGED <<tree, formatter, output, pc, lintVars>>

\* state.serialize_field(key, value)
SerializeField ==
    /\ pc = "running"
    /\ stack # <<>>
    /\ Top.value.kind = "struct"
    /\ Top.i <= Len(Top.value.kids)
    /\ LET id    == Top.seq
           field == NextElement(Top)
           value == field.kids[1]
           r     == serialize_field(formatter, Machine.ser, seqs[id].state, id,
                                    field.name)
           r0    == serialize_element(formatter, Machine.ser, seqs[id].state, id)
           e     == [start |-> Len(r0.ser.buffer) + 1,
                     text  |-> field.name,
                     child |-> IF IsContainer(value) THEN Len(seqs) + 1 ELSE 0]
           m     == [ser   |-> r.ser,
                     stack |-> [stack EXCEPT ![Len(stack)].i = @ + 1],
                     seqs  |-> [seqs EXCEPT ![id].state = r.state,
                                            ![id].elems = Append(@, e)]]
       IN  SetMachine(serialize(m, value, id))
    /\ UNCHANGED <<tree, formatter, output, pc, lintVars>>

\* state.end() of a struct
EndStruct ==
    /\ pc = "running"
    /\ stack # <<>>
    /\ Top.value.kind = "struct"
    /\ Top.i > Len(Top.value.kids)
    /\ LET id == Top.seq
           s  == end_struct(formatter, Machine.ser, seqs[id].state, id)
       IN  SetMachine([ser   |-> s,
                       stack |-> Return(stack),
                       seqs  |-> [seqs EXCEPT ![id].close = Len(s.buffer),
                                              ![id].ends = @ + 1,
                                              ![id].finished = TRUE]])
    /\ UNCHANGED <<tree, formatter, output, pc, lintVars>>

\* serializer.into_string(); after the compact run the test makes a
\* PrettySerializer and serializes the same value again.
IntoString ==
    /\ pc = "running"
    /\ stack = <<>>
    /\ output' = [output EXCEPT ![formatter] = buffer]
    /\ IF formatter = "Compact"
       THEN /\ formatter' = "Pretty"
            /\ buffer' = <<>>
            /\ indent' = 0
            /\ seqs' = <<>>
            /\ hooks' = <<>>
            /\ pc' = "start"
       ELSE /\ pc' = "done"
            /\ UNCHANGED <<formatter, buffer, indent, seqs, hooks>>
    /\ UNCHANGED <<tree, stack, lintVars>>

Next ==
    \/ Serialize
    \/ SerializeElement
    \/ End
    \/ SerializeField
    \/ EndStruct
    \/ IntoString

Spec == Init /\ [][Next]_vars

\* The program is sequential and never blocks: a step that can be taken is.
FairSpec == Spec /\ WF_vars(Next)

----------------------------------------------------------------------------
(* Reading the buffer *)

Ids == 1..Len(seqs)

Live == {b \in Ids : ~seqs[b].finished}

Opens == {"[", "{"}

Closes == {"]", "}"}

Whitespace == {"\n", " "}

OpenTok(kind) == IF kind = "seq" THEN "[" ELSE "{"

CloseTok(kind) == IF kind = "seq" THEN "]" ELSE "}"

\* Number of tokens of the set toks among the first n tokens of buf.
CountIn(buf, toks, n) == Cardinality({k \in 1..n : buf[k] \in toks})

\* Bracket nesting after the first n tokens of buf.
NestAt(buf, n) == CountIn(buf, Opens, n) - CountIn(buf, Closes, n)

Balanced(buf) ==
    /\ \A n \in 0..Len(buf) : NestAt(buf, n) >= 0
    /\ NestAt(buf, Len(buf)) = 0

\* Indices of the hook log entries invoked by builder b.
HooksOf(b) == {k \in 1..Len(hooks) : hooks[k].seq = b}

\* Commas between the brackets of builder b that no nested builder wrote.
TopCommas(b) ==
    Cardinality({k \in (seqs[b].open + 1)..(seqs[b].close - 1) :
                    /\ buffer[k] = ","
                    /\ NestAt(buffer, k) = NestAt(buffer, seqs[b].open)})

----------------------------------------------------------------------------
(* Claims *)

\* C1: every builder writes exactly one opening token when it is created and
\* exactly one closing token at end, end is called exactly once per builder,
\* and once every builder is finished the brackets of the buffer are balanced.
C1_BracketsBalanced ==
    /\ \A b \in Ids :
        /\ buffer[seqs[b].open] = OpenTok(seqs[b].kind)
        /\ seqs[b].ends = (IF seqs[b].finished THEN 1 ELSE 0)
        /\ seqs[b].finished =>
            /\ buffer[seqs[b].close] = CloseTok(seqs[b].kind)
            /\ NestAt(buffer, seqs[b].open - 1) = NestAt(buffer, seqs[b].close)
    /\ CountIn(buffer, Opens, Len(buffer)) = Len(seqs)
    /\ CountIn(buffer, Closes, Len(buffer)) = Cardinality(Ids \ Live)
    /\ (pc # "start" /\ stack = <<>>) => (Live = {} /\ Balanced(buffer))
    /\ \A f \in Formatters : Balanced(output[f])

C1_Witness ==
    /\ pc = "done"
    /\ Len(seqs) >= 3
    /\ Live = {}
    /\ \E b \in Ids : seqs[b].parent # 0 /\ seqs[b].elems = <<>>
    /\ \E b \in Ids : seqs[b].parent # 0 /\ seqs[b].elems # <<>>

\* C2: a sequence or struct ended while still Empty is exactly "[]" or "{}"
\* under both formatters, and no formatter hook was invoked for it.
C2_EmptyIsInline ==
    \A b \in Ids :
        (seqs[b].finished /\ seqs[b].elems = <<>>) =>
            /\ seqs[b].state = "Empty"
            /\ seqs[b].close = seqs[b].open + 1
            /\ buffer[seqs[b].open] = OpenTok(seqs[b].kind)
            /\ buffer[seqs[b].close] = CloseTok(seqs[b].kind)
            /\ HooksOf(b) = {}

C2_Witness ==
    /\ formatter = "Pretty"
    /\ indent > 0
    /\ output["Compact"] # <<>>
    /\ \E b \in Ids :
        /\ seqs[b].kind = "seq"
        /\ seqs[b].finished
        /\ seqs[b].elems = <<>>
        /\ seqs[b].parent # 0

\* C3 as stated: a finished sequence of N >= 0 values begins with "[", ends
\* with "]" and has exactly N - 1 commas among its direct children.
C3_Original ==
    \A b \in Ids :
        (seqs[b].kind = "seq" /\ seqs[b].finished) =>
            /\ buffer[seqs[b].open] = "["
            /\ buffer[seqs[b].close] = "]"
            /\ TopCommas(b) = Len(seqs[b].elems) - 1

\* C3 amended: a finished sequence of N values begins with "[", ends with
\* "]" and has N - 1 commas among its direct children when N >= 1, and none
\* when N = 0.
C3_TopLevelCommas ==
    \A b \in Ids :
        (seqs[b].kind = "seq" /\ seqs[b].finished) =>
            /\ buffer[seqs[b].open] = "["
            /\ buffer[seqs[b].close] = "]"
            /\ TopCommas(b) =
                 (IF seqs[b].elems = <<>> THEN 0 ELSE Len(seqs[b].elems) - 1)

C3_Witness ==
    \E p, c \in Ids :
        /\ seqs[p].kind = "seq" /\ seqs[c].kind = "seq"
        /\ seqs[p].finished /\ seqs[c].finished
        /\ seqs[c].parent = p
        /\ Len(seqs[p].elems) >= 2
        /\ Len(seqs[c].elems) >= 2

\* C4: the elements and fields written through one builder are in the buffer
\* in call order: each write's text starts where the call found the end of
\* the buffer, and the whole text of an earlier write, nested builders
\* included, lies before the text of every later write of the same builder.
C4_CallOrder ==
    \A b \in Ids :
        \A i \in 1..Len(seqs[b].elems) :
            LET e == seqs[b].elems[i]
            IN  /\ seqs[b].open < e.start
                /\ e.start <= Len(buffer)
                /\ buffer[e.start] = e.text
                /\ e.child # 0 => e.start <= seqs[e.child].open
                /\ i > 1 =>
                    LET d == seqs[b].elems[i - 1]
                    IN  /\ d.start < e.start
                        /\ d.child # 0 =>
                            /\ seqs[d.child].finished
                            /\ seqs[d.child].close < e.start
                /\ seqs[b].finished =>
                    /\ e.start < seqs[b].close
                    /\ e.child # 0 =>
                        /\ seqs[e.child].finished
                        /\ seqs[e.child].close < seqs[b].close

C4_Witness ==
    \E b \in Ids :
        /\ seqs[b].finished
        /\ Len(seqs[b].elems) >= 2
        /\ seqs[b].elems[1].child # 0
        /\ Len(seqs[seqs[b].elems[1].child].elems) >= 2
        /\ seqs[b].elems[1].text # seqs[b].elems[2].text

StripWhitespace(buf) == SelectSeq(buf, LAMBDA t : t \notin Whitespace)

IsPrefix(s, t) == Len(s) <= Len(t) /\ s = SubSeq(t, 1, Len(s))

\* C5: the compact and the pretty output of one value hold the same
\* structural tokens, keys and primitive values in the same order; they
\* differ only in the whitespace the pretty formatter's hooks emit.
C5_SameStructure ==
    /\ \A k \in 1..Len(output["Compact"]) : output["Compact"][k] \notin Whitespace
    /\ formatter = "Pretty" =>
        IsPrefix(StripWhitespace(buffer), output["Compact"])
    /\ pc = "done" => StripWhitespace(output["Pretty"]) = output["Compact"]

C5_Witness ==
    /\ pc = "done"
    /\ tree = Foo
    /\ Len(output["Pretty"]) > Len(output["Compact"])
    /\ StripWhitespace(output["Pretty"]) = output["Compact"]

Entered == {b \in Live : seqs[b].state = "HasEntries"}

\* C6 as stated: the pretty formatter's nesting depth equals the number of
\* live builders (created and not yet finished).
C6_Original == formatter = "Pretty" => indent = Cardinality(Live)

\* C6 amended: the pretty formatter's nesting depth equals the number of live
\* builders in state HasEntries; a builder that is still Empty has not
\* changed the depth.
C6_DepthMirrorsEntered == formatter = "Pretty" => indent = Cardinality(Entered)

C6_Witness ==
    /\ formatter = "Pretty"
    /\ indent >= 2
    /\ Cardinality(Live) > indent

\* C7: the nesting depth is never negative, and it is zero whenever no
\* builder is live: before a top-level serialization, after it, and for
\* values with empty containers.
C7_DepthNonNegative ==
    /\ indent >= 0
    /\ Live = {} => indent = 0

C7_Witness ==
    /\ formatter = "Pretty"
    /\ pc = "done"
    /\ indent = 0
    /\ \E b \in Ids : seqs[b].elems = <<>>
    /\ \E b \in Ids : seqs[b].parent # 0 /\ seqs[b].elems # <<>>

\* First position of the line of buf that holds position p.
LineStart(buf, p) ==
    LET starts == {1} \cup {k + 1 : k \in {j \in 1..(p - 1) : buf[j] = "\n"}}
    IN  CHOOSE s \in starts : \A t \in starts : t <= s

\* Number of spaces at the start of the line of buf that holds position p.
LeadingSpaces(buf, p) ==
    LET s == LineStart(buf, p)
    IN  Cardinality({k \in s..(p - 1) : \A j \in s..k : buf[j] = " "})

\* Only spaces precede position p on its line.
FirstOnLine(buf, p) == \A k \in LineStart(buf, p)..(p - 1) : buf[k] = " "

\* C8: in the pretty output each direct child of a non-empty container starts
\* a line indented one unit (two spaces) more than the line that holds the
\* container's opening token, and the closing token of a non-empty container
\* starts a line indented like the line of its opening token; so a sibling
\* written after a deep branch has the indentation of the branch's first line.
C8_Indentation ==
    formatter = "Pretty" =>
        \A b \in Ids :
            seqs[b].elems # <<>> =>
                LET level == LeadingSpaces(buffer, seqs[b].open)
                IN  /\ \A i \in 1..Len(seqs[b].elems) :
                        LET e == seqs[b].elems[i]
                        IN  /\ FirstOnLine(buffer, e.start)
                            /\ LeadingSpaces(buffer, e.start) = level + IndentUnit
                    /\ seqs[b].finished =>
                        /\ FirstOnLine(buffer, seqs[b].close)
                        /\ LeadingSpaces(buffer, seqs[b].close) = level

C8_Witness ==
    /\ formatter = "Pretty"
    /\ \E b, c, d \in Ids :
        /\ seqs[c].parent = b /\ seqs[d].parent = c
        /\ seqs[b].finished /\ seqs[c].finished /\ seqs[d].finished
        /\ seqs[d].elems # <<>>
        /\ Len(seqs[b].elems) = 2
        /\ seqs[b].elems[1].child = c
        /\ LeadingSpaces(buffer, seqs[b].elems[1].start) = IndentUnit
        /\ LeadingSpaces(buffer, seqs[b].elems[2].start) = IndentUnit
        /\ LeadingSpaces(buffer, seqs[d].elems[1].start) = 3 * IndentUnit

Innermost(b) == b \in Live /\ \A c \in Live : c <= b

C9_Nested ==
    /\ Len(stack) = Cardinality(Live)
    /\ \A b \in Ids :
        LET p == seqs[b].parent
        IN  p # 0 =>
                /\ p < b
                /\ seqs[p].open < seqs[b].open
                /\ seqs[p].finished =>
                    /\ seqs[b].finished
                    /\ seqs[b].close < seqs[p].close
    /\ \A a, b \in Live : a # b => seqs[a].parent # seqs[b].parent

C9_InnermostActs ==
    /\ \A b \in Ids :
        (b <= Len(seqs') /\ seqs'[b] # seqs[b]) => Innermost(b)
    /\ (Live # {} /\ (buffer' # buffer \/ hooks' # hooks)) =>
        \E b \in Ids : Innermost(b) /\ b <= Len(seqs') /\ seqs'[b] # seqs[b]

\* C9: builders are strictly nested in time: a builder begun inside a
\* parent's serialize_element is finished before the parent does anything
\* else, so every write to the buffer and every hook is the innermost live
\* builder's, and a finished parent has only finished children inside it.
C9_StrictlyNested == [](C9_Nested) /\ [][C9_InnermostActs]_vars

C9_Witness ==
    /\ Cardinality(Live) >= 3
    /\ \E p \in Live :
        /\ Len(seqs[p].elems) >= 2
        /\ seqs[p].elems[1].child # 0
        /\ seqs[seqs[p].elems[1].child].finished

C10_Step ==
    \A b \in Ids :
        /\ (seqs[b].finished /\ b <= Len(seqs')) =>
            /\ seqs'[b] = seqs[b]
            /\ {k \in 1..Len(hooks') : hooks'[k].seq = b} = HooksOf(b)
            /\ SubSeq(buffer', 1, seqs[b].close) = SubSeq(buffer, 1, seqs[b].close)
        /\ (~seqs[b].finished /\ b <= Len(seqs') /\ seqs'[b].finished) =>
            /\ seqs'[b].ends = 1
            /\ seqs'[b].close = Len(buffer')
            /\ buffer'[Len(buffer')] = CloseTok(seqs[b].kind)

\* C10: Finished is terminal and is reached only by the one end operation:
\* once a builder is finished no later step changes it, invokes a hook for
\* it or touches the text up to its closing token.
C10_FinishedIsTerminal == [][C10_Step]_vars

C10_Witness ==
    /\ Live # {}
    /\ \E b \in Ids :
        /\ seqs[b].finished
        /\ seqs[b].close < Len(buffer)
        /\ \E a \in Live : Len(seqs[a].elems) >= 2 /\ seqs[a].elems[2].start > seqs[b].close

\* C11: serializing a finite tree through the slice / array implementations
\* always terminates: no step before the end is stuck, and the run ends with
\* every begun builder finished and both outputs balanced.
C11_Terminates ==
    /\ [](pc = "done" \/ ENABLED Next)
    /\ <>(/\ pc = "done"
          /\ Live = {}
          /\ \A f \in Formatters : output[f] # <<>> /\ Balanced(output[f]))

C11_Witness ==
    /\ pc = "done"
    /\ tree = Deep
    /\ Live = {}
    /\ Len(seqs) = 4
    /\ Balanced(output["Compact"]) /\ Balanced(output["Pretty"])

\* C14: a builder's progress marker starts Empty, becomes HasEntries on
\* the builder's first serialize_element call, and is HasEntries ever
\* after, whatever is serialized inside its elements.
C14_Step ==
    \A b \in 1..Len(seqs') :
        IF b \in Ids
        THEN /\ seqs[b].state = "HasEntries" => seqs'[b].state = "HasEntries"
             /\ seqs[b].state = "Empty" /\ seqs'[b].state = "HasEntries" =>
                    seqs[b].elems = <<>> /\ Len(seqs'[b].elems) = 1
             /\ seqs'[b].elems # <<>> => seqs'[b].state = "HasEntries"
        ELSE seqs'[b].state = "Empty" /\ seqs'[b].elems = <<>>

C14_MarkerMonotone == [][C14_Step]_vars

C14_Witness ==
    \E b \in Live :
        /\ seqs[b].kind = "seq"
        /\ seqs[b].state = "HasEntries"
        /\ Len(seqs[b].elems) = 2
        /\ LET c == seqs[b].elems[1].child
           IN  /\ c # 0
               /\ seqs[c].finished
               /\ seqs[c].state = "HasEntries"
               /\ \E d \in Ids : seqs[d].parent = c /\ seqs[d].state = "Empty"

\* A step in which sequence builder b serializes one more element.
ElementStep(b) ==
    /\ b \in Ids
    /\ b <= Len(seqs')
    /\ seqs[b].kind = "seq"
    /\ Len(seqs'[b].elems) = Len(seqs[b].elems) + 1

\* C15: a serialize_element call on a builder in HasEntries appends a
\* comma, then invokes before_later_element (and not before_first_element),
\* then serializes the value; the first call invokes before_first_element
\* and appends no comma before the value.
C15_Step ==
    \A b \in Ids :
        ElementStep(b) =>
            LET n == Len(buffer)
                e == seqs'[b].elems[Len(seqs'[b].elems)]
            IN  /\ IsPrefix(buffer, buffer')
                /\ e.start <= Len(buffer')
                /\ buffer'[e.start] = e.text
                /\ IF seqs[b].state = "HasEntries"
                   THEN /\ buffer'[n + 1] = ","
                        /\ \A k \in (n + 2)..(e.start - 1) : buffer'[k] \in Whitespace
                        /\ hooks' = Append(hooks, [hook |-> "before_later_element",
                                                   seq  |-> b])
                   ELSE /\ \A k \in (n + 1)..(e.start - 1) : buffer'[k] \in Whitespace
                        /\ hooks' = Append(hooks, [hook |-> "before_first_element",
                                                   seq  |-> b])

C15_ElementPaths == [][C15_Step]_vars

C15_Witness ==
    /\ formatter = "Pretty"
    /\ \E b \in Live :
        /\ seqs[b].kind = "seq"
        /\ Len(seqs[b].elems) = 2
        /\ seqs[b].elems[2].start = Len(buffer)
        /\ buffer[seqs[b].elems[2].start - 1] \in Whitespace
        /\ hooks[Len(hooks)] = [hook |-> "before_later_element", seq |-> b]
        /\ \E k \in seqs[b].elems[1].start..Len(buffer) : buffer[k] = ","

\* C16: the buffer of a serializer is append-only: whatever a builder
\* operation or formatter hook does, the content before it is a prefix of
\* the content after it.
C16_Step == formatter' = formatter => IsPrefix(buffer, buffer')

C16_AppendOnly == [][C16_Step]_vars

C16_Witness ==
    \E b \in Ids :
        /\ seqs[b].finished
        /\ seqs[b].close = Len(buffer)
        /\ seqs[b].parent # 0
        /\ seqs[b].elems # <<>>
        /\ formatter = "Pretty"

HooksNamed(b, name) == {k \in HooksOf(b) : hooks[k].hook = name}

\* C18: on each builder before_first_element and after_last_element are
\* invoked at most once, after_last_element is invoked at end exactly when
\* before_first_element was invoked on the builder, and no
\* before_later_element comes before the builder's before_first_element.
C18_HookPairing ==
    \A b \in Ids :
        LET first == HooksNamed(b, "before_first_element")
            later == HooksNamed(b, "before_later_element")
            last  == HooksNamed(b, "after_last_element")
        IN  /\ Cardinality(first) <= 1
            /\ Cardinality(last) <= 1
            /\ seqs[b].finished => Cardinality(last) = Cardinality(first)
            /\ ~seqs[b].finished => last = {}
            /\ \A k \in later : \E j \in first : j < k
            /\ \A k \in last : \A j \in HooksOf(b) : j <= k

C18_Witness ==
    /\ \E b \in Ids :
        /\ seqs[b].kind = "seq"
        /\ seqs[b].finished
        /\ HooksNamed(b, "before_first_element") # {}
        /\ HooksNamed(b, "before_later_element") # {}
        /\ HooksNamed(b, "after_last_element") # {}
    /\ \E b \in Ids :
        /\ seqs[b].kind = "seq"
        /\ seqs[b].finished
        /\ HooksOf(b) = {}

\* The value with every array replaced by the slice of the same elements.
RECURSIVE AsSlices(_)
AsSlices(value) ==
    [kind |-> IF value.kind = "array" THEN "seq" ELSE value.kind,
     name |-> value.name,
     kids |-> [k \in 1..Len(value.kids) |-> AsSlices(value.kids[k])]]

\* The line break of the pretty output at a nesting depth.
Break(F, depth) ==
    IF F = "Pretty" THEN <<"\n">> \o Spaces(depth * IndentUnit) ELSE <<>>

\* The text of a value built of primitives, slices and structs.
RECURSIVE SliceText(_, _, _), SliceTexts(_, _, _)
SliceText(F, value, depth) ==
    CASE value.kind = "prim" -> <<value.name>>
      [] value.kind = "field" ->
            <<value.name, ":">> \o (IF F = "Pretty" THEN <<" ">> ELSE <<>>)
            \o SliceText(F, value.kids[1], depth)
      [] value.kind \in {"seq", "struct"} ->
            IF value.kids = <<>>
            THEN <<OpenTok(value.kind), CloseTok(value.kind)>>
            ELSE <<OpenTok(value.kind)>> \o Break(F, depth + 1)
                 \o SliceTexts(F, value.kids, depth + 1)
                 \o Break(F, depth) \o <<CloseTok(value.kind)>>

SliceTexts(F, items, depth) ==
    IF Len(items) = 1 THEN SliceText(F, items[1], depth)
    ELSE SliceText(F, Head(items), depth) \o <<",">> \o Break(F, depth)
         \o SliceTexts(F, Tail(items), depth)

\* C19: an array serializes to the output of the slice holding the same
\* elements in the same order, under either formatter: each of the two
\* begins one sequence, calls serialize_element once per element in index
\* order, and calls end once.
C19_SliceArraySame ==
    /\ \A f \in Formatters :
        output[f] # <<>> => output[f] = SliceText(f, AsSlices(tree), 0)
    /\ \A b \in Ids :
        seqs[b].kind = "seq" /\ seqs[b].finished =>
            /\ seqs[b].ends = 1
            /\ Len(seqs[b].elems) = Len(seqs[b].of.kids)
            /\ \A i \in 1..Len(seqs[b].elems) :
                LET e == seqs[b].elems[i]
                IN  /\ e.text = FirstToken(seqs[b].of.kids[i])
                    /\ e.child # 0 => seqs[e.child].of = seqs[b].of.kids[i]
                    /\ i > 1 => seqs[b].elems[i - 1].start < e.start

C19_Witness ==
    /\ pc = "done"
    /\ tree.kind = "array"
    /\ Len(tree.kids) = 2
    /\ tree.kids[1] # tree.kids[2]
    /\ seqs[1].ends = 1
    /\ \A f \in Formatters : output[f] = SliceText(f, SeqV(tree.kids), 0)

----------------------------------------------------------------------------
(* The lint rule no_unsafe_finally *)

MaxDepth == 3

NoLabel == ""

JumpKinds ==
    {"BreakStatement", "ContinueStatement", "ReturnStatement", "ThrowStatement"}

\* The nodes the linter hands to run: the four jumps, with or without a
\* label, and a node of another kind.
Statements ==
    {[kind |-> k, label |-> NoLabel] : k \in JumpKinds \cup {"ExpressionStatement"}}
    \cup {[kind |-> k, label |-> "a"] : k \in {"BreakStatement", "ContinueStatement"}}

\* An ancestor before its span is known.  `role` tells, for a try statement,
\* where its finalizer is: the block below it on the path ("below"), a block
\* that is not on the path ("elsewhere"), or nowhere ("none").
N(kind, label, role) == [kind |-> kind, label |-> label, role |-> role]

\* The constructs a statement can be nested in, each with the nodes it puts
\* on the path from the statement to the program, nearest first.
Constructs ==
    {"If", "LabeledA", "LabeledLoopA", "Loop", "Switch",
     "TryBlock", "TryFinally", "Function", "Class"}

NodesOf(construct) ==
    CASE construct = "If" ->
            <<N("BlockStatement", NoLabel, ""), N("IfStatement", NoLabel, "")>>
      [] construct = "LabeledA" -> <<N("LabeledStatement", "a", "")>>
      [] construct = "LabeledB" -> <<N("LabeledStatement", "b", "")>>
      [] construct = "LabeledLoopA" ->
            <<N("WhileStatement", NoLabel, ""), N("LabeledStatement", "a", "")>>
      [] construct = "Loop" -> <<N("WhileStatement", NoLabel, "")>>
      [] construct = "DoWhile" ->
            <<N("BlockStatement", NoLabel, ""), N("DoWhileStatement", NoLabel, "")>>
      [] construct = "Switch" ->
            <<N("SwitchCase", NoLabel, ""), N("SwitchStatement", NoLabel, "")>>
      [] construct = "TryBlock" ->
            <<N("BlockStatement", NoLabel, ""), N("TryStatement", NoLabel, "elsewhere")>>
      [] construct = "TryOnly" ->
            <<N("BlockStatement", NoLabel, ""), N("TryStatement", NoLabel, "none")>>
      [] construct = "TryCatch" ->
            <<N("BlockStatement", NoLabel, ""), N("CatchClause", NoLabel, ""),
              N("TryStatement", NoLabel, "elsewhere")>>
      [] construct = "TryFinally" ->
            <<N("BlockStatement", NoLabel, ""), N("TryStatement", NoLabel, "below")>>
      [] construct = "Function" ->
            <<N("FunctionBody", NoLabel, ""), N("Function", NoLabel, "")>>
      [] construct = "Arrow" ->
            <<N("FunctionBody", NoLabel, ""),
              N("ArrowFunctionExpression", NoLabel, "")>>
      [] construct = "Class" ->
            <<N("StaticBlock", NoLabel, ""), N("ClassBody", NoLabel, ""),
              N("Class", NoLabel, "")>>
      [] construct = "Method" ->
            <<N("FunctionBody", NoLabel, ""), N("Function", NoLabel, ""),
              N("MethodDefinition", NoLabel, ""), N("ClassBody", NoLabel, ""),
              N("Class", NoLabel, "")>>

RECURSIVE Flatten(_)
Flatten(nesting) ==
    IF nesting = <<>> THEN <<>>
    ELSE NodesOf(Head(nesting)) \o Flatten(Tail(nesting))

\* The ancestors of a statement nested in the constructs of `nesting`
\* (innermost first): every node gets its position as span, and a try
\* statement the span of its finalizer, if it has one.
AncestorsIn(nesting) ==
    LET raw == Flatten(nesting) \o <<N("Program", NoLabel, "")>>
    IN  [k \in 1..Len(raw) |->
            [kind      |-> raw[k].kind,
             label     |-> raw[k].label,
             span      |-> k,
             finalizer |-> IF raw[k].role = "below" THEN {k - 1}
                           ELSE IF raw[k].role = "elsewhere" THEN {0 - k}
                           ELSE {}]]

\* Nestings of the rule's tests that the enumeration below does not produce.
TestNestings ==
    {<<"TryBlock", "Function">>, <<"TryCatch", "Function">>,
     <<"TryOnly", "Function">>,
     <<"If", "Function", "TryFinally", "Function">>,
     <<"If", "Loop", "Function", "TryFinally", "Function">>,
     <<"If", "LabeledLoopA", "Function", "TryFinally", "Function">>,
     <<"DoWhile", "TryFinally", "Function">>,
     <<"Arrow", "TryFinally", "Function">>,
     <<"Method", "TryFinally", "Function">>,
     <<"If", "TryFinally", "Function">>,
     <<"TryFinally", "LabeledA", "Function">>,
     <<"Switch", "TryFinally", "LabeledLoopA", "Function">>,
     <<"Switch", "TryFinally", "Switch", "LabeledA", "Function">>,
     <<"LabeledB", "TryFinally", "LabeledA">>,
     <<"Loop", "TryFinally", "LabeledLoopA", "Function">>}

Nestings ==
    (UNION {[1..n -> Constructs] : n \in 0..MaxDepth}) \cup TestNestings

FunctionLike == {"Function", "Arrow", "Class", "Method"}

\* The constructs of a nesting that lie in the statement's own function.
OwnFunction(nesting) ==
    {k \in 1..Len(nesting) : \A j \in 1..k : nesting[j] \notin FunctionLike}

\* The statement parses: a return is in a function, a break or continue has
\* a target in its own function, and no label is declared twice in a function.
Parses(stmt, nesting) ==
    LET own == OwnFunction(nesting)
        labelsA == {k \in 1..Len(nesting) : nesting[k] \in {"LabeledA", "LabeledLoopA"}}
    IN  /\ stmt.kind = "ReturnStatement" =>
            \E k \in 1..Len(nesting) :
                /\ nesting[k] \in {"Function", "Arrow", "Method"}
                /\ \A j \in 1..(k - 1) : j \in own
        /\ stmt.kind = "BreakStatement" /\ stmt.label = NoLabel =>
            \E k \in own : nesting[k] \in {"Loop", "LabeledLoopA", "DoWhile", "Switch"}
        /\ stmt.kind = "ContinueStatement" /\ stmt.label = NoLabel =>
            \E k \in own : nesting[k] \in {"Loop", "LabeledLoopA", "DoWhile"}
        /\ stmt.kind = "BreakStatement" /\ stmt.label # NoLabel =>
            \E k \in own : k \in labelsA
        /\ stmt.kind = "ContinueStatement" /\ stmt.label # NoLabel =>
            \E k \in own : nesting[k] = "LabeledLoopA"
        /\ \A i, j \in labelsA :
            i < j => \E b \in (i + 1)..(j - 1) : nesting[b] \in FunctionLike

\* AstKind::is_iteration_statement
is_iteration_statement(kind) ==
    kind \in {"DoWhileStatement", "WhileStatement", "ForStatement",
              "ForInStatement", "ForOfStatement"}

sentinel_node_type(kind) ==
    IF kind.kind = "BreakStatement" /\ kind.label = NoLabel THEN "Break"
    ELSE IF kind.kind = "ContinueStatement" THEN "Continue"
    ELSE "ReturnThrow"

\* An Option<&Atom>: {} is None, {name} is Some(name).
label_name(kind) ==
    IF kind.kind \in {"BreakStatement", "ContinueStatement"} /\ kind.label # NoLabel
    THEN {kind.label}
    ELSE {}

\* Faulty variant of test: a function body is not a sentinel.
test_without_function_body(self, kind) ==
    \/ kind \in {"Program", "Class"}
    \/ CASE self = "Break" -> is_iteration_statement(kind) \/ kind = "SwitchStatement"
         [] self = "Continue" -> is_iteration_statement(kind)
         [] self = "ReturnThrow" -> FALSE

\* Faulty variant of test: a switch statement is a sentinel of continue too.
test_continue_at_switch(self, kind) ==
    \/ kind \in {"Program", "FunctionBody", "Class"}
    \/ CASE self = "Break" -> is_iteration_statement(kind) \/ kind = "SwitchStatement"
         [] self = "Continue" -> is_iteration_statement(kind) \/ kind = "SwitchStatement"
         [] self = "ReturnThrow" -> FALSE

\* SentinelNodeType::test
test(self, kind) ==
    \/ kind \in {"Program", "FunctionBody", "Class"}
    \/ CASE self = "Break" -> is_iteration_statement(kind) \/ kind = "SwitchStatement"
         [] self = "Continue" -> is_iteration_statement(kind)
         [] self = "ReturnThrow" -> FALSE

\* The AST nodes on the path of a statement: the statement has id 1, its
\* k-th ancestor id k + 1.
Nodes(stmt, anc) ==
    <<[kind |-> stmt.kind, label |-> stmt.label, span |-> 0, finalizer |-> {}]>>
    \o anc

\* nodes.ancestor_ids(id): the ids up to the program, from the node itself or
\* from its parent
ancestor_ids(nodes, id, fromSelf) ==
    LET first == IF fromSelf THEN id ELSE id + 1
    IN  [k \in 1..(Len(nodes) - first + 1) |-> first + k - 1]

\* The `for` loop of run over the ids still to visit; TRUE when it reports.
RECURSIVE walk(_, _, _, _, _)
walk(nodes, ids, sentinel, label, label_inside) ==
    IF ids = <<>> THEN FALSE
    ELSE
        LET node_id == Head(ids)
            ast_kind == nodes[node_id]
        IN  IF test(sentinel, ast_kind.kind) THEN FALSE
            ELSE
                LET parent_kind == nodes[node_id + 1]
                    inside ==
                        \/ label_inside
                        \/ /\ parent_kind.kind = "LabeledStatement"
                           /\ label = {parent_kind.label}
                IN  IF /\ parent_kind.kind = "TryStatement"
                       /\ parent_kind.finalizer # {}
                       /\ ast_kind.kind = "BlockStatement"
                       /\ parent_kind.finalizer = {ast_kind.span}
                    THEN ~(label # {} /\ inside)
                    ELSE walk(nodes, Tail(ids), sentinel, label, inside)

\* NoUnsafeFinally::run: the diagnostics it adds for one node.
run(stmt, anc, fromSelf) ==
    IF stmt.kind \notin JumpKinds THEN <<>>
    ELSE
        LET nodes == Nodes(stmt, anc)
        IN  IF walk(nodes, ancestor_ids(nodes, 1, fromSelf),
                    sentinel_node_type(stmt), label_name(stmt), FALSE)
            THEN <<stmt>>
            ELSE <<>>

\* The serializer is not running.
SerIdle ==
    /\ tree = Prim("\"a\"")
    /\ formatter = "Compact"
    /\ buffer = <<>>
    /\ indent = 0
    /\ stack = <<>>
    /\ seqs = <<>>
    /\ hooks = <<>>
    /\ output = [f \in Formatters |-> <<>>]
    /\ pc = "done"

LintInit ==
    /\ SerIdle
    /\ \E stmt \in Statements, nesting \in Nestings :
        /\ Parses(stmt, nesting)
        /\ node = stmt
        /\ ancestors = AncestorsIn(nesting)
    /\ self_first \in BOOLEAN
    /\ diagnostics = <<>>
    /\ visited = FALSE

\* The linter calls the rule on the node.
Run ==
    /\ ~visited
    /\ ancestors # <<>>
    /\ diagnostics' = diagnostics \o run(node, ancestors, self_first)
    /\ visited' = TRUE
    /\ UNCHANGED <<node, ancestors, self_first, serVars>>

LintNext == Run

LintSpec == LintInit /\ [][LintNext]_vars

----------------------------------------------------------------------------
(* Reading the path of the visited node *)

Reported == diagnostics # <<>>

\* The k-th ancestor is the finalizer block of a try statement.
IsFinalizer(k) ==
    /\ k < Len(ancestors)
    /\ ancestors[k].kind = "BlockStatement"
    /\ ancestors[k + 1].kind = "TryStatement"
    /\ ancestors[k + 1].finalizer = {ancestors[k].span}

Boundaries == {"FunctionBody", "Class", "Program"}

Loops == {"WhileStatement", "DoWhileStatement"}

\* The nearest ancestor of one of the kinds; the program is the last ancestor.
Nearest(kinds) ==
    CHOOSE k \in 1..Len(ancestors) :
        /\ ancestors[k].kind \in kinds \cup {"Program"}
        /\ \A j \in 1..(k - 1) : ancestors[j].kind \notin kinds \cup {"Program"}

\* The finalizer blocks around the node inside its own function or class.
Finalizers == {k \in 1..(Nearest(Boundaries) - 1) : IsFinalizer(k)}

\* C12: a return or throw is reported exactly when some ancestor below the
\* first function body, class or program is the finalizer block of a try
\* statement; so one inside a function or class nested in a finally block
\* is not reported.  A report is made once.
C12_ReturnThrow ==
    visited /\ node.kind \in {"ReturnStatement", "ThrowStatement"} =>
        /\ Reported <=> Finalizers # {}
        /\ Reported => diagnostics = <<node>>

C12_Witness ==
    /\ visited
    /\ node.kind = "ReturnStatement"
    /\ Reported
    /\ \E k \in Finalizers : k > 1
    /\ ancestors[Nearest(Boundaries)].kind = "FunctionBody"

\* The labelled statement that a labelled break or continue names.
Target ==
    CHOOSE k \in 1..Len(ancestors) :
        /\ ancestors[k].kind = "LabeledStatement"
        /\ ancestors[k].label = node.label
        /\ \A j \in 1..(k - 1) :
            ~(ancestors[j].kind = "LabeledStatement" /\ ancestors[j].label = node.label)

\* The innermost finally block the node is located in.
Innermost_finally == CHOOSE k \in Finalizers : \A j \in Finalizers : k <= j

Labelled ==
    /\ node.kind \in {"BreakStatement", "ContinueStatement"}
    /\ node.label # NoLabel

\* C13: a labelled break or continue located in a finally block is not
\* reported when its labelled statement lies inside that finally block, and
\* is reported when the labelled statement encloses the try statement.
C13_Original ==
    visited /\ Labelled /\ Finalizers # {} =>
        /\ Target < Innermost_finally => ~Reported
        /\ Target > Innermost_finally => Reported

\* The statement an unlabelled break or continue leaves or restarts.
Targeted ==
    IF node.kind = "BreakStatement"
    THEN Nearest(Loops \cup {"SwitchStatement"})
    ELSE Nearest(Loops)

Unlabelled ==
    /\ node.kind \in {"BreakStatement", "ContinueStatement"}
    /\ node.label = NoLabel

\* C17: an unlabelled break or continue located in a finally block is not
\* reported when the statement it targets (a loop or switch for break, a
\* loop for continue) lies between it and the finally block, and is
\* reported when that statement encloses the try statement; a switch
\* inside the finally block is no target of a continue.
C17_Unlabelled ==
    visited /\ Unlabelled /\ Finalizers # {} =>
        /\ Targeted < Innermost_finally => ~Reported
        /\ Targeted > Innermost_finally => diagnostics = <<node>>

C17_Witness ==
    /\ visited
    /\ Unlabelled
    /\ node.kind = "ContinueStatement"
    /\ Finalizers # {}
    /\ \E k \in 1..(Innermost_finally - 1) : ancestors[k].kind = "SwitchStatement"
    /\ ancestors[Targeted].kind \in Loops
    /\ Targeted > Innermost_finally
    /\ Reported

====
